---- MODULE Spec2Model ----
(***************************************************************************)
(* The maps package of 13770129/containers: UnorderedMap (a Go map),       *)
(* OrderedMap (a Go map from key to *list.Element plus a container/list    *)
(* doubly-linked list) and DefaultAbstractMap, whose derived operations    *)
(* call back into the concrete map through the impl field.                 *)
(*                                                                         *)
(* One instance of each map is driven in lock step: every action applies   *)
(* the same operation with the same arguments to both instances and        *)
(* records what each returned.                                             *)
(***************************************************************************)
EXTENDS Integers, Sequences, FiniteSets, TLC

\* ------------------------------------------------------------------ bounds
MaxKey == 2
MaxVal == 1

\* The keys and values the calls are made with: values of comparable types
\* whose == is an equivalence, as the test suite instantiates K and V.
Keys == 1..MaxKey
Values == 0..MaxVal
\* Addresses a *list.Element can have; one per key that can be present.
ElemIds == 1..MaxKey
\* What the visitor of Range/Keys/Values does: it returns false on its
\* stop-th invocation, and never when stop = 0.
Stops == 0..MaxKey

\* ----------------------------------------------------- program constants
\* "var zero V": the zero value of the value type.
Zero == 0
\* The sentinel element l.root of a container/list List.
Root == 0
\* A nil *list.Element.
Nil == -1

Instances == {"unordered", "ordered"}

VARIABLES
    mp,     \* mp[i]: the map instance i (UnorderedMap / OrderedMap struct)
    call,   \* the latest call made on both instances: method and arguments
    ret,    \* ret[i]: what that call returned on instance i
    model,  \* model[i]: the pairs instance i has to hold, by the calls made
            \* on it and the flags they returned, oldest insertion first
    before, \* before[i]: how many pairs model[i] held when the latest call
            \* was made
    walk    \* the call that is under way when a method is followed one
            \* statement at a time: its loop variables and program position

vars == <<mp, call, ret, model, before, walk>>

\* ----------------------------------------------------------------- helpers
Restrict(f, S) == [x \in S |-> f[x]]

Perms(S) == {p \in [1..Cardinality(S) -> S] : \A i, j \in DOMAIN p : p[i] = p[j] => i = j}

\* ------------------------------------------------------------ UnorderedMap
NewUnorderedMap == [kind |-> "unordered", m |-> <<>>]

UM_Delete(um, key) == [um EXCEPT !.m = Restrict(um.m, DOMAIN um.m \ {key})]

UM_Len(um) == Cardinality(DOMAIN um.m)

UM_Load(um, key) ==
    IF key \in DOMAIN um.m THEN [value |-> um.m[key], ok |-> TRUE]
                           ELSE [value |-> Zero, ok |-> FALSE]

\* Mutant: the last pair of the iteration is never handed to f.
UM_Range_SkipLast(um, ord, stop) ==
    LET last == IF Len(ord) = 0 THEN 0 ELSE Len(ord) - 1
        n == IF stop \in 1..last THEN stop ELSE last
    IN  [i \in 1..n |-> <<ord[i], um.m[ord[i]]>>]

\* "for k, v := range um.m": the runtime picks the order, ord; f returns
\* false on its stop-th call.  The result is the sequence of calls of f.
UM_Range(um, ord, stop) ==
    LET n == IF stop \in 1..Len(ord) THEN stop ELSE Len(ord)
    IN  [i \in 1..n |-> <<ord[i], um.m[ord[i]]>>]

\* Mutant: a key that is present keeps its value.
UM_Store_NoOverwrite(um, key, value) == [um EXCEPT !.m = um.m @@ (key :> value)]

UM_Store(um, key, value) == [um EXCEPT !.m = (key :> value) @@ um.m]

\* ------------------------------------------- container/list, as OrderedMap uses it
\* l.Front()
ListFront(om) == IF om.len = 0 THEN Nil ELSE om.next[Root]

\* e.Next()
ElemNext(om, e) ==
    LET p == om.next[e]
    IN  IF om.list[e] /\ p # Root THEN p ELSE Nil

\* A fresh element, "&entry{...}" wrapped by PushBack: an address no live
\* element has.  The allocator may return any free address; this one
\* returns the address numbered like the key when it is free, and the
\* lowest free address otherwise.
NewElement(om, key) ==
    LET free == ElemIds \ DOMAIN om.ent
    IN  IF key \in free THEN key
        ELSE CHOOSE e \in free : \A d \in free : e <= d

CanAllocate(om) == ElemIds \ DOMAIN om.ent # {}

\* Mutant: the new element is inserted after l.root, at the front.
ListPushBack_Front(om, e, entry) ==
    LET n1 == (e :> om.next[Root]) @@ om.next
        n2 == [n1 EXCEPT ![Root] = e]
        p1 == (e :> Root) @@ om.prev
        p2 == [p1 EXCEPT ![n2[e]] = e]
    IN  [om EXCEPT !.next = n2, !.prev = p2, !.len = om.len + 1,
                   !.ent = (e :> entry) @@ om.ent,
                   !.list = (e :> TRUE) @@ om.list]

\* l.PushBack(entry): insert the new element e after l.root.prev.
ListPushBack(om, e, entry) ==
    LET at == om.prev[Root]
        n1 == (e :> om.next[at]) @@ om.next
        n2 == [n1 EXCEPT ![at] = e]
        p1 == (e :> at) @@ om.prev
        p2 == [p1 EXCEPT ![n2[e]] = e]
    IN  [om EXCEPT !.next = n2, !.prev = p2, !.len = om.len + 1,
                   !.ent = (e :> entry) @@ om.ent,
                   !.list = (e :> TRUE) @@ om.list]

\* l.Remove(e): unlink e if it belongs to l; e keeps its Value.
ListRemove(om, e) ==
    IF e \in DOMAIN om.list /\ om.list[e]
    THEN LET n1 == [om.next EXCEPT ![om.prev[e]] = om.next[e]]
             p1 == [om.prev EXCEPT ![om.next[e]] = om.prev[e]]
         IN  [om EXCEPT !.next = [n1 EXCEPT ![e] = Nil],
                        !.prev = [p1 EXCEPT ![e] = Nil],
                        !.list = [om.list EXCEPT ![e] = FALSE],
                        !.len = om.len - 1]
    ELSE om

\* ------------------------------------------------------------- OrderedMap
NewOrderedMap ==
    [kind |-> "ordered", m |-> <<>>,
     next |-> (Root :> Root), prev |-> (Root :> Root), len |-> 0,
     ent |-> <<>>, list |-> <<>>]

\* Mutant: the value of a present key is not updated.
OM_Store_NoUpdate(om, key, value) ==
    IF key \in DOMAIN om.m
    THEN om
    ELSE LET element == NewElement(om, key)
             pushed == ListPushBack(om, element, [key |-> key, value |-> value])
         IN  [pushed EXCEPT !.m = (key :> element) @@ om.m]

\* Mutant: a Store to a present key moves its element to the back.
OM_Store_MoveToBack(om, key, value) ==
    LET gone == IF key \in DOMAIN om.m THEN ListRemove(om, om.m[key]) ELSE om
        element == IF key \in DOMAIN om.m THEN om.m[key] ELSE NewElement(om, key)
        pushed == ListPushBack(gone, element, [key |-> key, value |-> value])
    IN  [pushed EXCEPT !.m = (key :> element) @@ om.m]

\* Mutant: the key is not looked up first; an element is always appended.
OM_Store_AlwaysAppend(om, key, value) ==
    LET element == NewElement(om, key)
        pushed == ListPushBack(om, element, [key |-> key, value |-> value])
    IN  [pushed EXCEPT !.m = (key :> element) @@ om.m]

\* Mutant: a new element is appended to the list and not entered in the index.
OM_Store_NoIndex(om, key, value) ==
    IF key \in DOMAIN om.m
    THEN [om EXCEPT !.ent[om.m[key]].value = value]
    ELSE ListPushBack(om, NewElement(om, key), [key |-> key, value |-> value])

OM_Store(om, key, value) ==
    IF key \in DOMAIN om.m
    THEN [om EXCEPT !.ent[om.m[key]].value = value]
    ELSE LET element == NewElement(om, key)
             pushed == ListPushBack(om, element, [key |-> key, value |-> value])
         IN  [pushed EXCEPT !.m = (key :> element) @@ om.m]

OM_Load(om, key) ==
    IF key \in DOMAIN om.m THEN [value |-> om.ent[om.m[key]].value, ok |-> TRUE]
                           ELSE [value |-> Zero, ok |-> FALSE]

\* Mutant: the element is unlinked and the index entry stays.
OM_Delete_KeepIndex(om, key) ==
    IF key \in DOMAIN om.m THEN ListRemove(om, om.m[key]) ELSE om

\* Mutant: the index entry is deleted and the element stays in the list.
OM_Delete_KeepNode(om, key) ==
    IF key \in DOMAIN om.m
    THEN [om EXCEPT !.m = Restrict(om.m, DOMAIN om.m \ {key})]
    ELSE om

\* Mutant: the element unlinked is the front of the list, not the one of key.
OM_Delete_RemovesFront(om, key) ==
    IF key \in DOMAIN om.m
    THEN ListRemove([om EXCEPT !.m = Restrict(om.m, DOMAIN om.m \ {key})], ListFront(om))
    ELSE om

OM_Delete(om, key) ==
    IF key \in DOMAIN om.m
    THEN ListRemove([om EXCEPT !.m = Restrict(om.m, DOMAIN om.m \ {key})], om.m[key])
    ELSE om

OM_Len(om) == Cardinality(DOMAIN om.m)

\* The loop of Range from element on; visited holds the calls of f made so
\* far, f returns false on its stop-th call.  fuel ends a walk of a list
\* that does not lead back to its root.
RECURSIVE OM_Walk(_, _, _, _, _)
OM_Walk(om, element, stop, visited, fuel) ==
    IF element = Nil \/ fuel = 0 THEN visited
    ELSE LET entry == om.ent[element]
             seen == Append(visited, <<entry.key, entry.value>>)
         IN  IF Len(seen) = stop THEN seen
             ELSE OM_Walk(om, ElemNext(om, element), stop, seen, fuel - 1)

\* Mutant: the walk goes on after f has returned false.
OM_Range_NoBreak(om, stop) == OM_Walk(om, ListFront(om), 0, <<>>, Cardinality(DOMAIN om.ent) + 1)

OM_Range(om, stop) == OM_Walk(om, ListFront(om), stop, <<>>, Cardinality(DOMAIN om.ent) + 1)

\* An element no pointer leads to any more is gone once the call returns.
OM_Reachable(om) == {om.m[k] : k \in DOMAIN om.m} \cup {e \in DOMAIN om.list : om.list[e]}

OM_Collect(om) ==
    LET live == OM_Reachable(om)
    IN  [om EXCEPT !.next = Restrict(om.next, live \cup {Root}),
                   !.prev = Restrict(om.prev, live \cup {Root}),
                   !.ent = Restrict(om.ent, live),
                   !.list = Restrict(om.list, live)]

\* ------------------------------------------- m.impl: the concrete map's methods
Impl_Store(s, key, value) ==
    IF s.kind = "unordered" THEN UM_Store(s, key, value) ELSE OM_Store(s, key, value)

Impl_Load(s, key) ==
    IF s.kind = "unordered" THEN UM_Load(s, key) ELSE OM_Load(s, key)

Impl_Delete(s, key) ==
    IF s.kind = "unordered" THEN UM_Delete(s, key) ELSE OM_Delete(s, key)

Impl_Len(s) ==
    IF s.kind = "unordered" THEN UM_Len(s) ELSE OM_Len(s)

Impl_Range(s, ord, stop) ==
    IF s.kind = "unordered" THEN UM_Range(s, ord, stop) ELSE OM_Range(s, stop)

Collect(s) == IF s.kind = "unordered" THEN s ELSE OM_Collect(s)

\* Whether the call can get the memory it needs.
CanStore(s, key) ==
    IF s.kind = "unordered" THEN TRUE
    ELSE IF key \in DOMAIN s.m THEN TRUE
    ELSE CanAllocate(s)

\* ------------------------------------------------------ DefaultAbstractMap
\* Each derived operation gives the map after the call (s) and what the
\* call returned.

\* any(value) == any(old)
AnyEq(value, old) == value = old

RECURSIVE DeleteEach(_, _, _)
DeleteEach(s, keys, i) ==
    IF i > Len(keys) THEN s ELSE DeleteEach(Impl_Delete(s, keys[i]), keys, i + 1)

\* Mutant: the collecting loop breaks after its first key.
DAM_Clear_BreakEarly(s, ord) ==
    LET seen == Impl_Range(s, ord, 1)
        keys == [i \in DOMAIN seen |-> seen[i][1]]
    IN  DeleteEach(s, keys, 1)

DAM_Clear(s, ord) ==
    LET seen == Impl_Range(s, ord, 0)
        keys == [i \in DOMAIN seen |-> seen[i][1]]
    IN  DeleteEach(s, keys, 1)

\* Mutant: the value is not compared; a present key is deleted.
DAM_CompareAndDelete_NoCompare(s, key, old) ==
    LET got == Impl_Load(s, key)
    IN  IF ~got.ok THEN [s |-> s, ok |-> FALSE]
        ELSE [s |-> Impl_Delete(s, key), ok |-> TRUE]

DAM_CompareAndDelete(s, key, old) ==
    LET got == Impl_Load(s, key)
    IN  IF ~got.ok THEN [s |-> s, ok |-> FALSE]
        ELSE IF AnyEq(got.value, old) THEN [s |-> Impl_Delete(s, key), ok |-> TRUE]
        ELSE [s |-> s, ok |-> FALSE]

\* Mutant: the found flag is not tested, the value alone is compared.
DAM_CompareAndSwap_NoFlag(s, key, old, new) ==
    LET got == Impl_Load(s, key)
    IN  IF AnyEq(got.value, old) THEN [s |-> Impl_Store(s, key, new), ok |-> TRUE]
        ELSE [s |-> s, ok |-> FALSE]

\* Mutant: the new value is stored before the old one is compared.
DAM_CompareAndSwap_StoreAnyway(s, key, old, new) ==
    LET got == Impl_Load(s, key)
    IN  IF ~got.ok THEN [s |-> s, ok |-> FALSE]
        ELSE [s |-> Impl_Store(s, key, new), ok |-> AnyEq(got.value, old)]

DAM_CompareAndSwap(s, key, old, new) ==
    LET got == Impl_Load(s, key)
    IN  IF ~got.ok THEN [s |-> s, ok |-> FALSE]
        ELSE IF AnyEq(got.value, old) THEN [s |-> Impl_Store(s, key, new), ok |-> TRUE]
        ELSE [s |-> s, ok |-> FALSE]

DAM_Len(s, ord) == Len(Impl_Range(s, ord, 0))

\* Mutant: the key is loaded and not deleted.
DAM_LoadAndDelete_NoDelete(s, key) ==
    LET got == Impl_Load(s, key)
    IN  [s |-> s, value |-> got.value, ok |-> got.ok]

DAM_LoadAndDelete(s, key) ==
    LET got == Impl_Load(s, key)
    IN  [s |-> IF got.ok THEN Impl_Delete(s, key) ELSE s, value |-> got.value, ok |-> got.ok]

\* Mutant: the value is stored whether or not the key was loaded.
DAM_LoadOrStore_Overwrite(s, key, value) ==
    LET got == Impl_Load(s, key)
    IN  [s |-> Impl_Store(s, key, value), value |-> IF got.ok THEN got.value ELSE value,
         ok |-> got.ok]

\* Mutant: a loaded zero value is taken for "no such key".
DAM_LoadOrStore_ZeroIsAbsent(s, key, value) ==
    LET got == Impl_Load(s, key)
    IN  IF got.value = Zero THEN [s |-> Impl_Store(s, key, value), value |-> value, ok |-> FALSE]
        ELSE [s |-> s, value |-> got.value, ok |-> TRUE]

DAM_LoadOrStore(s, key, value) ==
    LET got == Impl_Load(s, key)
    IN  IF ~got.ok THEN [s |-> Impl_Store(s, key, value), value |-> value, ok |-> got.ok]
        ELSE [s |-> s, value |-> got.value, ok |-> got.ok]

DAM_Keys(s, ord, stop) ==
    LET seen == Impl_Range(s, ord, stop)
    IN  [i \in DOMAIN seen |-> seen[i][1]]

\* Mutant: the callback handed to Range passes the key on, not the value.
DAM_Values_YieldsKey(s, ord, stop) ==
    LET seen == Impl_Range(s, ord, stop)
    IN  [i \in DOMAIN seen |-> seen[i][1]]

DAM_Values(s, ord, stop) ==
    LET seen == Impl_Range(s, ord, stop)
    IN  [i \in DOMAIN seen |-> seen[i][2]]

\* Mutant: the value is stored before the previous one is loaded.
DAM_Swap_StoreFirst(s, key, value) ==
    LET stored == Impl_Store(s, key, value)
        got == Impl_Load(stored, key)
    IN  [s |-> stored, value |-> got.value, ok |-> got.ok]

\* Mutant: the key is deleted and stored anew.
DAM_Swap_DeleteThenStore(s, key, value) ==
    LET got == Impl_Load(s, key)
    IN  [s |-> Impl_Store(Collect(Impl_Delete(s, key)), key, value),
         value |-> got.value, ok |-> got.ok]

DAM_Swap(s, key, value) ==
    LET got == Impl_Load(s, key)
    IN  [s |-> Impl_Store(s, key, value), value |-> got.value, ok |-> got.ok]

\* ------------------------------------------- what the calls made so far require
\* model[i] is kept from the calls alone (method, arguments, returned flag),
\* never from the fields of the map: a sequence of <<key, value>> pairs, a
\* key entering at the end when a call inserts it and leaving when a call
\* deletes it.
ModelHas(a, key) == \E j \in DOMAIN a : a[j][1] = key

ModelPut(a, key, value) ==
    IF ModelHas(a, key)
    THEN [j \in DOMAIN a |-> IF a[j][1] = key THEN <<key, value>> ELSE a[j]]
    ELSE Append(a, <<key, value>>)

ModelDel(a, key) ==
    LET Other(p) == p[1] # key
    IN  SelectSeq(a, Other)

\* The pairs of a source put one after the other.
RECURSIVE ModelPutAll(_, _, _)
ModelPutAll(a, pairs, j) ==
    IF j > Len(pairs) THEN a
    ELSE ModelPutAll(ModelPut(a, pairs[j][1], pairs[j][2]), pairs, j + 1)

ModelNext(a, c, r) ==
    CASE c.op \in {"Store", "Swap"} -> ModelPut(a, c.key, c.value)
      [] c.op = "LoadOrStore" -> IF r.ok THEN a ELSE ModelPut(a, c.key, c.value)
      [] c.op = "CompareAndSwap" -> IF r.ok THEN ModelPut(a, c.key, c.value) ELSE a
      [] c.op \in {"Delete", "LoadAndDelete"} -> ModelDel(a, c.key)
      [] c.op = "CompareAndDelete" -> IF r.ok THEN ModelDel(a, c.key) ELSE a
      [] c.op = "Clear" -> <<>>
      [] c.op \in {"FromGoMaps", "FromAbstractMap"} -> ModelPutAll(a, c.src, 1)
      [] OTHER -> a

\* ------------------------------------------------------------------ state
\* A call: the method and its arguments (value is the value stored, or
\* the new value of CompareAndSwap); a field a method does not take is 0.
Call(op, key, value, old, stop) ==
    [op |-> op, key |-> key, value |-> value, old |-> old, stop |-> stop]

\* What a call returned: value and ok are the two results of the methods
\* that return a value and a flag (ok alone for the Compare methods), n is
\* the result of Len, calls the sequence of calls made of the visitor.
NoRet == [value |-> Zero, ok |-> FALSE, n |-> 0, calls |-> <<>>]

\* No call is under way on instance who.  op is the method followed last and
\* pc its position: "idle" once it has returned.  element is the loop
\* variable of OrderedMap.Range and rest the keys "range um.m" has yet to
\* produce; seen holds the calls made of the visitor, stopped whether it
\* answered false, keys the slice of Clear, unlink the element a Delete has taken out of the index and not yet
\* out of the list.  start (the pairs held when the method was called),
\* dels (the keys its visitor deleted), src (the map iterated over) and was
\* (the pairs of an OrderedMap that is copied into, when the copy began) are
\* kept for the claims.
NoWalk(who) ==
    [who |-> who, op |-> "none", pc |-> "idle", element |-> Nil, rest |-> <<>>,
     seen |-> <<>>, stopped |-> FALSE, keys |-> <<>>, unlink |-> Nil,
     start |-> <<>>, dels |-> {}, src |-> who, was |-> <<>>]

Init ==
    /\ mp = [i \in Instances |-> IF i = "unordered" THEN NewUnorderedMap ELSE NewOrderedMap]
    /\ call = Call("New", 0, 0, 0, 0)
    /\ ret = [i \in Instances |-> NoRet]
    /\ model = [i \in Instances |-> <<>>]
    /\ before = [i \in Instances |-> 0]
    /\ walk = NoWalk("ordered")

\* The rest of every action: the call is recorded and model follows it.
Record(c) ==
    /\ call' = c
    /\ model' = [i \in Instances |-> ModelNext(model[i], c, ret'[i])]
    /\ before' = [i \in Instances |-> Len(model[i])]
    /\ walk' = walk

\* The orders "range um.m" can take.
Orders == Perms(DOMAIN mp["unordered"].m)

Store(key, value) ==
    /\ \A i \in Instances : CanStore(mp[i], key)
    /\ mp' = [i \in Instances |-> Collect(Impl_Store(mp[i], key, value))]
    /\ ret' = [i \in Instances |-> NoRet]
    /\ Record(Call("Store", key, value, 0, 0))

Load(key) ==
    /\ mp' = mp
    /\ ret' = [i \in Instances |->
                 LET got == Impl_Load(mp[i], key)
                 IN  [NoRet EXCEPT !.value = got.value, !.ok = got.ok]]
    /\ Record(Call("Load", key, 0, 0, 0))

Delete(key) ==
    /\ mp' = [i \in Instances |-> Collect(Impl_Delete(mp[i], key))]
    /\ ret' = [i \in Instances |-> NoRet]
    /\ Record(Call("Delete", key, 0, 0, 0))

MapLen ==
    /\ mp' = mp
    /\ ret' = [i \in Instances |-> [NoRet EXCEPT !.n = Impl_Len(mp[i])]]
    /\ Record(Call("Len", 0, 0, 0, 0))

Range(stop) ==
    \E ord \in Orders :
        /\ mp' = mp
        /\ ret' = [i \in Instances |-> [NoRet EXCEPT !.calls = Impl_Range(mp[i], ord, stop)]]
        /\ Record(Call("Range", 0, 0, 0, stop))

Clear ==
    \E ord \in Orders :
        /\ mp' = [i \in Instances |-> Collect(DAM_Clear(mp[i], ord))]
        /\ ret' = [i \in Instances |-> NoRet]
        /\ Record(Call("Clear", 0, 0, 0, 0))

CompareAndDelete(key, old) ==
    LET r == [i \in Instances |-> DAM_CompareAndDelete(mp[i], key, old)]
    IN  /\ mp' = [i \in Instances |-> Collect(r[i].s)]
        /\ ret' = [i \in Instances |-> [NoRet EXCEPT !.ok = r[i].ok]]
        /\ Record(Call("CompareAndDelete", key, 0, old, 0))

CompareAndSwap(key, old, new) ==
    LET r == [i \in Instances |-> DAM_CompareAndSwap(mp[i], key, old, new)]
    IN  /\ \A i \in Instances : CanStore(mp[i], key)
        /\ mp' = [i \in Instances |-> Collect(r[i].s)]
        /\ ret' = [i \in Instances |-> [NoRet EXCEPT !.ok = r[i].ok]]
        /\ Record(Call("CompareAndSwap", key, new, old, 0))

LoadAndDelete(key) ==
    LET r == [i \in Instances |-> DAM_LoadAndDelete(mp[i], key)]
    IN  /\ mp' = [i \in Instances |-> Collect(r[i].s)]
        /\ ret' = [i \in Instances |-> [NoRet EXCEPT !.value = r[i].value, !.ok = r[i].ok]]
        /\ Record(Call("LoadAndDelete", key, 0, 0, 0))

LoadOrStore(key, value) ==
    LET r == [i \in Instances |-> DAM_LoadOrStore(mp[i], key, value)]
    IN  /\ \A i \in Instances : CanStore(mp[i], key)
        /\ mp' = [i \in Instances |-> Collect(r[i].s)]
        /\ ret' = [i \in Instances |-> [NoRet EXCEPT !.value = r[i].value, !.ok = r[i].ok]]
        /\ Record(Call("LoadOrStore", key, value, 0, 0))

MapKeys(stop) ==
    \E ord \in Orders :
        /\ mp' = mp
        /\ ret' = [i \in Instances |-> [NoRet EXCEPT !.calls = DAM_Keys(mp[i], ord, stop)]]
        /\ Record(Call("Keys", 0, 0, 0, stop))

MapValues(stop) ==
    \E ord \in Orders :
        /\ mp' = mp
        /\ ret' = [i \in Instances |-> [NoRet EXCEPT !.calls = DAM_Values(mp[i], ord, stop)]]
        /\ Record(Call("Values", 0, 0, 0, stop))

Swap(key, value) ==
    LET r == [i \in Instances |-> DAM_Swap(mp[i], key, value)]
    IN  /\ \A i \in Instances : CanStore(mp[i], key)
        /\ mp' = [i \in Instances |-> Collect(r[i].s)]
        /\ ret' = [i \in Instances |-> [NoRet EXCEPT !.value = r[i].value, !.ok = r[i].ok]]
        /\ Record(Call("Swap", key, value, 0, 0))

Next ==
    \/ \E key \in Keys, value \in Values : Store(key, value)
    \/ \E key \in Keys : Load(key)
    \/ \E key \in Keys : Delete(key)
    \/ MapLen
    \/ \E stop \in Stops : Range(stop)
    \/ Clear
    \/ \E key \in Keys, old \in Values : CompareAndDelete(key, old)
    \/ \E key \in Keys, old \in Values, new \in Values : CompareAndSwap(key, old, new)
    \/ \E key \in Keys : LoadAndDelete(key)
    \/ \E key \in Keys, value \in Values : LoadOrStore(key, value)
    \/ \E stop \in Stops : MapKeys(stop)
    \/ \E stop \in Stops : MapValues(stop)
    \/ \E key \in Keys, value \in Values : Swap(key, value)

Spec == Init /\ [][Next]_vars

\* ------------------------------------------------ FromGoMaps, FromAbstractMap
\* A source of a bulk load holds at most MaxSrcLen pairs.
MaxSrcLen == 1

\* The Go maps a caller can hand over as a source.
GoMaps ==
    UNION {[S -> Values] : S \in {T \in SUBSET Keys : Cardinality(T) <= MaxSrcLen}}

\* "for k, v := range gm": the pairs of gm in the order ord the runtime picks.
GoMapRange(gm, ord) == UM_Range([kind |-> "unordered", m |-> gm], ord, 0)

\* Mutant: a key that dst holds already keeps its value.
RECURSIVE StoreAll_KeepExisting(_, _, _)
StoreAll_KeepExisting(s, pairs, j) ==
    IF j > Len(pairs) THEN s
    ELSE StoreAll_KeepExisting(
             IF Impl_Load(s, pairs[j][1]).ok THEN s
             ELSE Impl_Store(s, pairs[j][1], pairs[j][2]), pairs, j + 1)

\* The inner loop of both functions: "m.Store(k, v)" for the pairs of one
\* source, from the j-th on, in the order the source yields them.
RECURSIVE StoreAll(_, _, _)
StoreAll(s, pairs, j) ==
    IF j > Len(pairs) THEN s
    ELSE StoreAll(Impl_Store(s, pairs[j][1], pairs[j][2]), pairs, j + 1)

\* An AbstractMap a caller can hand over as a source: an UnorderedMap or an
\* OrderedMap the pairs of gm have been stored in, in the order ord.
SourceMap(kind, gm, ord) ==
    StoreAll(IF kind = "unordered" THEN NewUnorderedMap ELSE NewOrderedMap,
             GoMapRange(gm, ord), 1)

\* A bulk load of one source: src is the sequence of pairs the source has
\* yielded.
BulkCall(op, src) ==
    [op |-> op, key |-> 0, value |-> 0, old |-> 0, stop |-> 0, src |-> src]

\* One turn of "for _, gm := range gms" with its inner loop.  The functions
\* keep nothing from one source to the next, so FromGoMaps(m, g1, ..., gn)
\* is n of these steps in the order of the arguments.
FromGoMaps(gm) ==
    \E ord \in Perms(DOMAIN gm) :
        LET src == GoMapRange(gm, ord)
        IN  /\ mp' = [i \in Instances |-> Collect(StoreAll(mp[i], src, 1))]
            /\ ret' = [i \in Instances |-> NoRet]
            /\ Record(BulkCall("FromGoMaps", src))

\* One turn of "for _, am := range ams": am.Range yields the pairs of the
\* source, in the order ord if am is an UnorderedMap and in insertion order
\* if it is an OrderedMap; the loop body never breaks.
FromAbstractMap(kind, gm) ==
    \E ord \in Perms(DOMAIN gm) :
        LET am == SourceMap(kind, gm, ord)
            src == Impl_Range(am, ord, 0)
        IN  /\ mp' = [i \in Instances |-> Collect(StoreAll(mp[i], src, 1))]
            /\ ret' = [i \in Instances |-> NoRet]
            /\ Record(BulkCall("FromAbstractMap", src))

NextBulk ==
    \/ \E key \in Keys, value \in Values : Store(key, value)
    \/ \E key \in Keys : Delete(key)
    \/ \E gm \in GoMaps : FromGoMaps(gm)
    \/ \E kind \in Instances, gm \in GoMaps : FromAbstractMap(kind, gm)

SpecBulk == Init /\ [][NextBulk]_vars

\* ------------------------------------------------------- method resolution
\* The methods UnorderedMap defines itself.
UM_Methods == {"Delete", "Len", "Load", "Range", "Store"}

\* Mutant: OrderedMap defines no Range of its own.
OM_Methods_NoRange == {"Store", "Load", "Delete", "Len"}

\* The methods OrderedMap defines itself.
OM_Methods == {"Store", "Load", "Delete", "Len", "Range"}

\* The methods of DefaultAbstractMap, which both maps embed, and the ones of
\* them whose body is panic("not implemented").
DAM_Methods ==
    {"Clear", "CompareAndDelete", "CompareAndSwap", "Delete", "Len", "Load",
     "LoadAndDelete", "LoadOrStore", "Range", "Keys", "Values", "Swap"}

DAM_Stubs == {"Delete", "Load", "Range"}

\* The type whose body runs when method is called on a value of type kind:
\* a method the type defines itself hides the one promoted from the embedded
\* DefaultAbstractMap.  "default" is a DefaultAbstractMap with nothing built
\* around it.
Resolve(kind, method) ==
    IF kind = "unordered" /\ method \in UM_Methods THEN "unordered"
    ELSE IF kind = "ordered" /\ method \in OM_Methods THEN "ordered"
    ELSE "default"

\* The type of m.impl: the constructors of both maps pass the new map itself.
ImplOf(kind) == kind

\* The methods the body of a DefaultAbstractMap method calls on m.impl.
Calls(method) ==
    CASE method = "Clear" -> {"Range", "Delete"}
      [] method = "CompareAndDelete" -> {"Load", "Delete"}
      [] method = "CompareAndSwap" -> {"Load", "Store"}
      [] method = "Len" -> {"Range"}
      [] method = "LoadAndDelete" -> {"Load", "Delete"}
      [] method = "LoadOrStore" -> {"Load", "Store"}
      [] method \in {"Keys", "Values"} -> {"Range"}
      [] method = "Swap" -> {"Load", "Store"}
      [] OTHER -> {}

\* A call of method on a value of type kind runs a panic("not implemented")
\* body, itself or through m.impl.
Aborts(kind, method) ==
    /\ Resolve(kind, method) = "default"
    /\ \/ method \in DAM_Stubs
       \/ \E p \in Calls(method) :
             Resolve(ImplOf(kind), p) = "default" /\ p \in DAM_Stubs

\* --------------------------------------- the methods, one statement at a time
\* The methods that loop over the pairs of the map.
Loops == {"Range", "Keys", "Values", "Len", "Clear"}

\* Mutant: the key stays in the index.
OM_DeleteIndex_Keeps(om, key) == om

\* "delete(om.m, key)", the first statement of the body of OrderedMap.Delete.
OM_DeleteIndex(om, key) == [om EXCEPT !.m = Restrict(om.m, DOMAIN om.m \ {key})]

\* Delete(key) up to the call of om.l.Remove: the map, and the element Remove
\* has yet to be called with (none on UnorderedMap, whose Delete is the one
\* statement, and none when the key is not there).
DeleteStart(s, key) ==
    IF s.kind = "unordered" THEN [s |-> UM_Delete(s, key), unlink |-> Nil]
    ELSE IF key \in DOMAIN s.m
         THEN [s |-> OM_DeleteIndex(s, key), unlink |-> s.m[key]]
         ELSE [s |-> s, unlink |-> Nil]

\* The loop condition of Range is false: "element != nil" on OrderedMap, no
\* key left to produce on UnorderedMap.
AtEnd(s, w) == IF s.kind = "unordered" THEN w.rest = <<>> ELSE w.element = Nil

\* The pair the loop body is run with.
Current(s, w) ==
    IF s.kind = "unordered" THEN <<w.rest[1], s.m[w.rest[1]]>>
    ELSE <<s.ent[w.element].key, s.ent[w.element].value>>

\* Mutant: the loop variable is not moved on.
Advance_Stays(s, w) == w

\* "element = element.Next()", respectively the next key of "range um.m".
Advance(s, w) ==
    IF s.kind = "unordered" THEN [w EXCEPT !.rest = Tail(w.rest)]
    ELSE [w EXCEPT !.element = ElemNext(s, w.element)]

\* Mutant: the slice is set to the key instead of being appended to.
ClearCollect_Overwrite(keys, key) == <<key>>

\* "keys = append(keys, key)" in Clear.
ClearCollect(keys, key) == Append(keys, key)

\* No method is under way.
Quiet == walk.pc = "idle" /\ walk.unlink = Nil

SetMap(s) == mp' = [mp EXCEPT ![walk.who] = s]

StepStore(key, value) ==
    /\ Quiet
    /\ CanStore(mp[walk.who], key)
    /\ SetMap(Collect(Impl_Store(mp[walk.who], key, value)))
    /\ walk' = [NoWalk(walk.who) EXCEPT !.op = "Store"]
    /\ UNCHANGED <<call, ret, model, before>>

\* Delete(key) called by the user: its first statement.
StepDelete(key) ==
    LET d == DeleteStart(mp[walk.who], key)
    IN  /\ Quiet
        /\ SetMap(d.s)
        /\ walk' = [NoWalk(walk.who) EXCEPT !.op = "Delete", !.unlink = d.unlink,
                                            !.dels = {key}]
        /\ UNCHANGED <<call, ret, model, before>>

\* "om.l.Remove(element)", the second statement of the body of Delete,
\* whoever called Delete.
StepRemove ==
    LET s == ListRemove(mp[walk.who], walk.unlink)
    IN  /\ walk.unlink # Nil
        /\ SetMap(IF walk.pc = "f" THEN s ELSE Collect(s))
        /\ walk' = [walk EXCEPT !.unlink = Nil]
        /\ UNCHANGED <<call, ret, model, before>>

\* A looping method is called: the loop variable is set up.
StepBegin(op) ==
    \E ord \in Perms(DOMAIN mp[walk.who].m) :
        LET s == mp[walk.who]
        IN  /\ Quiet
            /\ walk' = [NoWalk(walk.who) EXCEPT
                           !.op = op, !.pc = "loop",
                           !.element = IF s.kind = "ordered" THEN ListFront(s) ELSE Nil,
                           !.rest = IF s.kind = "unordered" THEN ord ELSE <<>>,
                           !.start = Impl_Range(s, ord, 0)]
            /\ UNCHANGED <<mp, call, ret, model, before>>

\* The loop is left at its condition; Clear goes on to its second loop.
StepExit ==
    /\ walk.pc = "loop" /\ walk.unlink = Nil
    /\ AtEnd(mp[walk.who], walk)
    /\ walk' = [walk EXCEPT !.pc = IF walk.op = "Clear" THEN "delete" ELSE "idle"]
    /\ UNCHANGED <<mp, call, ret, model, before>>

\* The loop body is run with the current pair and does not touch the map:
\* the visitor of Range, Keys or Values answers true or false, the bodies of
\* Len and Clear count or collect and go on.
StepVisit(answer) ==
    LET s == mp[walk.who]
        pair == Current(s, walk)
        w1 == [walk EXCEPT !.seen = Append(walk.seen, pair),
                           !.keys = IF walk.op = "Clear"
                                    THEN ClearCollect(walk.keys, pair[1]) ELSE walk.keys]
    IN  /\ walk.pc = "loop" /\ walk.unlink = Nil
        /\ ~AtEnd(s, walk)
        /\ walk.op \in {"Len", "Clear"} => answer
        /\ walk' = IF answer THEN Advance(s, w1)
                   ELSE [w1 EXCEPT !.pc = "idle", !.stopped = TRUE,
                                   !.element = Nil, !.rest = <<>>]
        /\ UNCHANGED <<mp, call, ret, model, before>>

\* The visitor of Range is called with the current pair and calls Delete
\* with the key it is called with or with a key it was called with before.
StepVisitDelete(key) ==
    LET s == mp[walk.who]
        pair == Current(s, walk)
        d == DeleteStart(s, key)
    IN  /\ walk.pc = "loop" /\ walk.unlink = Nil
        /\ ~AtEnd(s, walk)
        /\ walk.op = "Range"
        /\ key \in DOMAIN s.m
        /\ key = pair[1] \/ \E j \in DOMAIN walk.seen : walk.seen[j][1] = key
        /\ SetMap(d.s)
        /\ walk' = [walk EXCEPT !.seen = Append(walk.seen, pair), !.pc = "f",
                                !.unlink = d.unlink, !.dels = walk.dels \cup {key}]
        /\ UNCHANGED <<call, ret, model, before>>

\* The visitor that called Delete returns true and the loop variable moves on.
StepReturn ==
    LET s == mp[walk.who]
    IN  /\ walk.pc = "f" /\ walk.unlink = Nil
        /\ walk' = [Advance(s, walk) EXCEPT !.pc = "loop"]
        /\ SetMap(Collect(s))
        /\ UNCHANGED <<call, ret, model, before>>

\* The second loop of Clear: "m.impl.Delete(key)" for the next key of keys.
StepClearDelete ==
    LET d == DeleteStart(mp[walk.who], Head(walk.keys))
    IN  /\ walk.pc = "delete" /\ walk.unlink = Nil
        /\ walk.keys # <<>>
        /\ SetMap(d.s)
        /\ walk' = [walk EXCEPT !.keys = Tail(walk.keys), !.unlink = d.unlink,
                                !.dels = walk.dels \cup {Head(walk.keys)}]
        /\ UNCHANGED <<call, ret, model, before>>

StepClearReturn ==
    /\ walk.pc = "delete" /\ walk.unlink = Nil
    /\ walk.keys = <<>>
    /\ walk' = [walk EXCEPT !.pc = "idle"]
    /\ UNCHANGED <<mp, call, ret, model, before>>

\* One map is followed, an UnorderedMap or an OrderedMap.
InitSteps ==
    /\ mp = [i \in Instances |-> IF i = "unordered" THEN NewUnorderedMap ELSE NewOrderedMap]
    /\ call = Call("New", 0, 0, 0, 0)
    /\ ret = [i \in Instances |-> NoRet]
    /\ model = [i \in Instances |-> <<>>]
    /\ before = [i \in Instances |-> 0]
    /\ \E who \in Instances : walk = NoWalk(who)

\* The statements that belong to a call under way.
StepOn ==
    \/ StepRemove
    \/ StepExit
    \/ \E answer \in BOOLEAN : StepVisit(answer)
    \/ \E key \in Keys : StepVisitDelete(key)
    \/ StepReturn
    \/ StepClearDelete
    \/ StepClearReturn

NextSteps ==
    \/ \E key \in Keys, value \in Values : StepStore(key, value)
    \/ \E key \in Keys : StepDelete(key)
    \/ \E op \in Loops : StepBegin(op)
    \/ StepOn

SpecSteps == InitSteps /\ [][NextSteps]_vars

\* A call under way is not left unfinished: the caller's own goroutine runs it.
SpecStepsFair == SpecSteps /\ WF_vars(StepOn)

\* ----------------------------------- FromAbstractMap, one pair at a time
\* Two maps of their own: the one copied into and another one to copy from.
CopyRoles == {"dst", "src"}

\* The values stored in the map to copy from.
SrcValues == {MaxVal}

CopyQuiet == walk.pc = "idle"

\* Store(key, value) called by the user on one of the two maps.
CopyStore(role, key, value) ==
    /\ CopyQuiet
    /\ role = "src" => value \in SrcValues
    /\ CanStore(mp[role], key)
    /\ mp' = [mp EXCEPT ![role] = Collect(Impl_Store(mp[role], key, value))]
    /\ walk' = [NoWalk("dst") EXCEPT !.op = "Store", !.src = role]
    /\ UNCHANGED <<call, ret, model, before>>

\* Delete(key) called by the user on one of the two maps.
CopyDelete(role, key) ==
    /\ CopyQuiet
    /\ mp' = [mp EXCEPT ![role] = Collect(Impl_Delete(mp[role], key))]
    /\ walk' = [NoWalk("dst") EXCEPT !.op = "Delete", !.src = role]
    /\ UNCHANGED <<call, ret, model, before>>

\* FromAbstractMap(dst, am) is called, am being the other map or dst itself:
\* "range am.Range" sets up the loop variable of am.
CopyBegin(from) ==
    \E ord \in Perms(DOMAIN mp[from].m) :
        LET am == mp[from]
        IN  /\ CopyQuiet
            /\ walk' = [NoWalk("dst") EXCEPT
                           !.op = "FromAbstractMap", !.pc = "loop", !.src = from,
                           !.element = IF am.kind = "ordered" THEN ListFront(am) ELSE Nil,
                           !.rest = IF am.kind = "unordered" THEN ord ELSE <<>>,
                           !.start = Impl_Range(am, ord, 0),
                           !.was = IF mp["dst"].kind = "ordered"
                                   THEN OM_Range(mp["dst"], 0) ELSE <<>>]
            /\ UNCHANGED <<mp, call, ret, model, before>>

\* The loop body "m.Store(k, v)" is run with the current pair of am, and the
\* loop variable of am moves on.
CopyStep ==
    LET pair == Current(mp[walk.src], walk)
        stored == [mp EXCEPT !["dst"] = Impl_Store(mp["dst"], pair[1], pair[2])]
        seen == [walk EXCEPT !.seen = Append(walk.seen, pair)]
    IN  /\ walk.pc = "loop"
        /\ ~AtEnd(mp[walk.src], walk)
        /\ CanStore(mp["dst"], pair[1])
        /\ mp' = stored
        /\ walk' = Advance(stored[walk.src], seen)
        /\ UNCHANGED <<call, ret, model, before>>

\* am.Range has come to its end and FromAbstractMap returns.
CopyExit ==
    /\ walk.pc = "loop"
    /\ AtEnd(mp[walk.src], walk)
    /\ walk' = [walk EXCEPT !.pc = "idle"]
    /\ UNCHANGED <<mp, call, ret, model, before>>

InitCopy ==
    /\ \E kinds \in [CopyRoles -> Instances] :
          mp = [r \in CopyRoles |->
                   IF kinds[r] = "unordered" THEN NewUnorderedMap ELSE NewOrderedMap]
    /\ call = Call("New", 0, 0, 0, 0)
    /\ ret = [i \in Instances |-> NoRet]
    /\ model = [i \in Instances |-> <<>>]
    /\ before = [i \in Instances |-> 0]
    /\ walk = NoWalk("dst")

\* The statements that belong to a FromAbstractMap under way.
CopyOn == CopyStep \/ CopyExit

NextCopy ==
    \/ \E role \in CopyRoles, key \in Keys, value \in Values : CopyStore(role, key, value)
    \/ \E role \in CopyRoles, key \in Keys : CopyDelete(role, key)
    \/ \E from \in CopyRoles : CopyBegin(from)
    \/ CopyOn

SpecCopy == InitCopy /\ [][NextCopy]_vars

\* A FromAbstractMap under way is not left unfinished.
SpecCopyFair == SpecCopy /\ WF_vars(CopyOn)

\* ------------------------------------------------------ reading the state
ModelGet(a, key) == LET j == CHOOSE j \in DOMAIN a : a[j][1] = key IN a[j][2]

\* What Load(key) has to return by the calls made so far.
ModelLoad(a, key) ==
    IF ModelHas(a, key) THEN [value |-> ModelGet(a, key), ok |-> TRUE]
                        ELSE [value |-> Zero, ok |-> FALSE]

\* The elements of the list from l.root on, following next.
RECURSIVE ListWalk(_, _, _)
ListWalk(om, e, fuel) ==
    IF e = Root \/ e = Nil \/ fuel = 0 THEN <<>>
    ELSE <<e>> \o ListWalk(om, om.next[e], fuel - 1)

ListElems(om) == ListWalk(om, om.next[Root], Cardinality(DOMAIN om.ent) + 1)

\* ----------------------------------------------------------------- claims

\* C1: on both maps, Load(k) returns (v, true) from the Store(k, v) on, until
\* a call deletes, clears or overwrites k, and not found when no pair of k
\* is left; calls on other keys do not change what Load(k) returns.
C1_LoadAfterStore ==
    \A i \in Instances :
        /\ \A k \in Keys : Impl_Load(mp[i], k).ok = ModelHas(model[i], k)
        /\ \A k \in Keys : ModelHas(model[i], k) => Impl_Load(mp[i], k) = ModelLoad(model[i], k)
        /\ call.op = "Load" =>
              /\ ret[i].ok = ModelHas(model[i], call.key)
              /\ ret[i].ok => ret[i].value = ModelGet(model[i], call.key)

\* C1 witness: Load of a key returned its stored non-zero value on both
\* maps while another key is stored too.
C1_Witness ==
    /\ call.op = "Load"
    /\ \A i \in Instances : ret[i].ok /\ ret[i].value # Zero /\ Len(model[i]) = 2

\* C2: a full Range of the OrderedMap visits the keys in the order of their
\* first insertion, deleted keys left out, and a Store to a present key
\* changes its value and not its place.
C2_RangeInsertionOrder ==
    LET seen == OM_Range(mp["ordered"], 0)
    IN  /\ seen = model["ordered"]
        /\ (call.op = "Range" /\ call.stop = 0) => ret["ordered"].calls = model["ordered"]

\* C2 witness: a full Range visited a later-numbered key before an earlier
\* one, with the values they hold.
C2_Witness ==
    /\ call.op = "Range" /\ call.stop = 0
    /\ Len(ret["ordered"].calls) = 2
    /\ ret["ordered"].calls[1][1] > ret["ordered"].calls[2][1]

\* C3: on both maps Len() is the number of keys present by the calls made:
\* those stored and not deleted or cleared since.
C3_LenCountsKeys ==
    \A i \in Instances :
        /\ Impl_Len(mp[i]) = Len(model[i])
        /\ call.op = "Len" => ret[i].n = Len(model[i])

\* C3 witness: a Store overwrote the key inserted first of two and Len is
\* still 2 on both maps.
C3_Witness ==
    /\ call.op = "Store"
    /\ \A i \in Instances :
          /\ before[i] = 2
          /\ model[i][1][1] = call.key
          /\ Impl_Len(mp[i]) = 2

\* C4: in the OrderedMap the index and the list correspond one to one: a
\* key of the index points to one element of the list, which holds that key
\* and its current value; the key of an element of the list is in the index
\* and leads back to the element; no key is in two elements.
C4_IndexListCorrespondence ==
    LET om == mp["ordered"]
        nodes == ListElems(om)
    IN  /\ om.len = Len(nodes)
        /\ Cardinality(DOMAIN om.m) = Len(nodes)
        /\ \A k \in DOMAIN om.m :
              /\ Cardinality({j \in DOMAIN nodes : nodes[j] = om.m[k]}) = 1
              /\ om.list[om.m[k]]
              /\ om.ent[om.m[k]].key = k
              /\ ModelHas(model["ordered"], k)
              /\ om.ent[om.m[k]].value = ModelGet(model["ordered"], k)
        /\ \A j \in DOMAIN nodes :
              /\ om.ent[nodes[j]].key \in DOMAIN om.m
              /\ om.m[om.ent[nodes[j]].key] = nodes[j]
        /\ \A j1, j2 \in DOMAIN nodes :
              om.ent[nodes[j1]].key = om.ent[nodes[j2]].key => j1 = j2
        /\ \A e \in {Root} \cup {nodes[j] : j \in DOMAIN nodes} :
              om.prev[om.next[e]] = e

\* C4 witness: a Delete has unlinked one of two elements and the other is
\* still in the list and the index.
C4_Witness ==
    /\ call.op = "Delete" /\ before["ordered"] = 2
    /\ mp["ordered"].len = 1
    /\ DOMAIN mp["ordered"].m = Keys \ {call.key}

\* What C5 says of one step of map i.
C5_Step(i) ==
    call'.op = "CompareAndSwap" =>
        LET k == call'.key
            cur == ModelLoad(model[i], k)
            hit == cur.ok /\ cur.value = call'.old
        IN  /\ ret'[i].ok = hit
            /\ ~hit => mp'[i] = mp[i]
            /\ hit => Impl_Load(mp'[i], k) = [value |-> call'.value, ok |-> TRUE]
            /\ \A k2 \in Keys \ {k} : Impl_Load(mp'[i], k2) = Impl_Load(mp[i], k2)

\* C5: CompareAndSwap(k, old, new) returns false and changes nothing when k
\* is absent or holds a value other than old; it returns true and sets k
\* to new, every other key as it was, exactly when k is present with old.
C5_CompareAndSwap == [][\A i \in Instances : C5_Step(i)]_vars

\* C5 witness: a CompareAndSwap to a different value succeeded on both maps
\* and the key holds the new value.
C5_Witness ==
    /\ call.op = "CompareAndSwap" /\ call.old # call.value
    /\ \A i \in Instances : ret[i].ok /\ Impl_Load(mp[i], call.key).value = call.value

\* What C6 says of one step of map i.
C6_Step(i) ==
    /\ call'.op = "LoadOrStore" =>
          LET k == call'.key
              cur == ModelLoad(model[i], k)
          IN  /\ ~cur.ok => /\ ret'[i].value = call'.value /\ ~ret'[i].ok
                            /\ Impl_Load(mp'[i], k) = [value |-> call'.value, ok |-> TRUE]
              /\ cur.ok => /\ ret'[i].value = cur.value /\ ret'[i].ok
                           /\ mp'[i] = mp[i]
    /\ (call.op = "LoadOrStore" /\ ~ret[i].ok /\ call'.op = "LoadOrStore" /\ call'.key = call.key) =>
          /\ ret'[i].value = call.value /\ ret'[i].ok
          /\ Impl_Load(mp'[i], call.key) = [value |-> call.value, ok |-> TRUE]

\* C6: LoadOrStore(k, v) on a map without k stores v and returns (v, false);
\* with k present it returns (the value k holds, true) and changes nothing.
\* So a second LoadOrStore(k, v2) right after one that stored v1 returns
\* (v1, true) and k still holds v1.
C6_LoadOrStore == [][\A i \in Instances : C6_Step(i)]_vars

\* C6 witness: a LoadOrStore returned the value the key already held, other
\* than the one offered, and the key still holds it.
C6_Witness ==
    /\ call.op = "LoadOrStore"
    /\ \A i \in Instances :
          /\ ret[i].ok /\ ret[i].value # call.value
          /\ Impl_Load(mp[i], call.key).value = ret[i].value

\* What C7 says of one step of map i.
C7_Step(i) ==
    call'.op = "CompareAndDelete" =>
        LET k == call'.key
            cur == ModelLoad(model[i], k)
            hit == cur.ok /\ cur.value = call'.old
        IN  /\ ret'[i].ok = hit
            /\ ~hit => mp'[i] = mp[i]
            /\ hit => ~Impl_Load(mp'[i], k).ok
            /\ \A k2 \in Keys \ {k} : Impl_Load(mp'[i], k2) = Impl_Load(mp[i], k2)

\* C7: CompareAndDelete(k, old) deletes k and returns true only if k is
\* present with the value old; otherwise it returns false and the map is
\* unchanged.  After a successful call Load(k) finds nothing and every
\* other key is as it was.
C7_CompareAndDelete == [][\A i \in Instances : C7_Step(i)]_vars

\* C7 witness: a CompareAndDelete succeeded on both maps, the key is gone
\* and another key is left.
C7_Witness ==
    /\ call.op = "CompareAndDelete"
    /\ \A i \in Instances :
          /\ ret[i].ok /\ ~Impl_Load(mp[i], call.key).ok
          /\ Impl_Len(mp[i]) = 1

\* What C8 says of one step of map i.
C8_Step(i) ==
    call'.op = "Swap" =>
        LET k == call'.key
            cur == ModelLoad(model[i], k)
        IN  /\ Impl_Load(mp'[i], k) = [value |-> call'.value, ok |-> TRUE]
            /\ ret'[i].ok = cur.ok
            /\ ret'[i].value = cur.value

\* C8: Swap(k, v) leaves k present with the value v; it returns (the value
\* k held, true) when k was present and (the zero value, false) when not.
C8_Swap == [][\A i \in Instances : C8_Step(i)]_vars

\* C8 witness: a Swap returned the previous value of a present key, other
\* than the new one, which the key now holds.
C8_Witness ==
    /\ call.op = "Swap"
    /\ \A i \in Instances :
          /\ ret[i].ok /\ ret[i].value # call.value
          /\ Impl_Load(mp[i], call.key) = [value |-> call.value, ok |-> TRUE]

\* What C9 says of one step of map i.
C9_Step(i) ==
    /\ call'.op = "LoadAndDelete" =>
          LET k == call'.key
              cur == ModelLoad(model[i], k)
          IN  /\ ret'[i].ok = cur.ok
              /\ cur.ok => ret'[i].value = cur.value /\ ~Impl_Load(mp'[i], k).ok
              /\ ~cur.ok => mp'[i] = mp[i]
    /\ (call.op = "LoadAndDelete" /\ ret[i].ok /\ call'.op = "LoadAndDelete" /\ call'.key = call.key) =>
          ~ret'[i].ok

\* C9: LoadAndDelete(k) with k present returns (the value k held, true) and
\* k is absent afterwards; with k absent it returns loaded = false and the
\* map is unchanged.  A second LoadAndDelete(k) right after a successful
\* one returns loaded = false.
C9_LoadAndDelete == [][\A i \in Instances : C9_Step(i)]_vars

\* C9 witness: a LoadAndDelete returned a stored non-zero value and the key
\* is gone from both maps.
C9_Witness ==
    /\ call.op = "LoadAndDelete"
    /\ \A i \in Instances :
          /\ ret[i].ok /\ ret[i].value # Zero
          /\ ~Impl_Load(mp[i], call.key).ok

\* What C10 says of a cleared map s, and of one step of map i.
C10_Cleared(s) ==
    /\ Impl_Len(s) = 0
    /\ \A k \in Keys : ~Impl_Load(s, k).ok
    /\ \A stop \in Stops, ord \in Perms(DOMAIN s.m) :
          /\ Impl_Range(s, ord, stop) = <<>>
          /\ DAM_Keys(s, ord, stop) = <<>>
          /\ DAM_Values(s, ord, stop) = <<>>

C10_Step(i) ==
    /\ call'.op = "Clear" => C10_Cleared(mp'[i])
    /\ (call.op = "Clear" /\ call'.op \in {"Range", "Keys", "Values"}) => ret'[i].calls = <<>>
    /\ (call.op = "Clear" /\ call'.op = "Len") => ret'[i].n = 0
    /\ (call.op = "Clear" /\ call'.op = "Load") => ~ret'[i].ok
    /\ (call.op = "Clear" /\ call'.op = "Store") =>
          /\ Impl_Load(mp'[i], call'.key) = [value |-> call'.value, ok |-> TRUE]
          /\ Impl_Len(mp'[i]) = 1

\* C10: after Clear() on either map Len() is 0, Load finds no key, and a
\* Range, Keys or Values call makes no call of its visitor; the map can be
\* used again: a Store(k, v) next gives Load(k) = (v, true) and Len() = 1.
C10_Clear == [][\A i \in Instances : C10_Step(i)]_vars

\* C10 witness: a Clear of two pairs has emptied both maps.
C10_Witness ==
    /\ call.op = "Clear"
    /\ \A i \in Instances : before[i] = 2 /\ C10_Cleared(mp[i])

\* The number of calls of a visitor that returns false on its stop-th call
\* (never, if stop = 0), iterating over n entries.
Invocations(stop, n) == IF stop \in 1..n THEN stop ELSE n

\* The set of the elements of a sequence.
Range_Of(seq) == {seq[j] : j \in DOMAIN seq}

\* No element occurs twice in the sequence.
Distinct(seq) == \A j1, j2 \in DOMAIN seq : seq[j1] = seq[j2] => j1 = j2

\* C11: on both maps Range calls the visitor once per entry up to the first
\* call that returns false and never after it; a visitor that returns false
\* on its first call is called exactly once whatever the size of the map; on
\* OrderedMap a visitor that returns false on its n-th call has seen exactly
\* the first n keys in insertion order.
C11_RangeEarlyTermination ==
    call.op = "Range" =>
        /\ \A i \in Instances :
              /\ Len(ret[i].calls) = Invocations(call.stop, Len(model[i]))
              /\ Distinct(ret[i].calls)
              /\ Range_Of(ret[i].calls) \subseteq Range_Of(model[i])
              /\ (call.stop = 1 /\ Len(model[i]) >= 1) => Len(ret[i].calls) = 1
        /\ ret["ordered"].calls =
              SubSeq(model["ordered"], 1, Invocations(call.stop, Len(model["ordered"])))

\* C11 witness: a visitor that returned false on its first call was called
\* once on maps of two pairs, with the first key stored on OrderedMap.
C11_Witness ==
    /\ call.op = "Range" /\ call.stop = 1
    /\ \A i \in Instances : Len(model[i]) = 2 /\ Len(ret[i].calls) = 1
    /\ ret["ordered"].calls[1] = model["ordered"][1]

\* C12: a Range whose visitor always returns true calls it exactly once for
\* every (key, current value) pair of the map and for nothing else, whatever
\* order UnorderedMap picks.
C12_FullRangeVisitsAll ==
    \A i \in Instances :
        (call.op = "Range" /\ (call.stop = 0 \/ call.stop > Len(model[i]))) =>
            /\ Len(ret[i].calls) = Len(model[i])
            /\ Distinct(ret[i].calls)
            /\ Range_Of(ret[i].calls) = Range_Of(model[i])
            /\ \A j \in DOMAIN ret[i].calls :
                  Impl_Load(mp[i], ret[i].calls[j][1]) =
                      [value |-> ret[i].calls[j][2], ok |-> TRUE]

\* C12 witness: a full Range of two pairs, UnorderedMap visiting them in
\* another order than OrderedMap.
C12_Witness ==
    /\ call.op = "Range" /\ call.stop = 0
    /\ \A i \in Instances : Len(ret[i].calls) = 2
    /\ ret["unordered"].calls # ret["ordered"].calls

\* The keys, and the values, of a sequence of pairs.
KeysOf(seq) == [j \in DOMAIN seq |-> seq[j][1]]
ValuesOf(seq) == [j \in DOMAIN seq |-> seq[j][2]]

\* C13: Keys and Values make as many calls of the visitor as Range does on
\* the same map and hand it the key, respectively the value, of each entry
\* Range would deliver, equal values included; they stop at the first false,
\* and on OrderedMap they go in insertion order.
C13_KeysValuesProjectRange ==
    /\ call.op \in {"Keys", "Values"} =>
          /\ \A i \in Instances :
                /\ Len(ret[i].calls) = Invocations(call.stop, Len(model[i]))
                /\ \A ord \in Perms(DOMAIN mp["unordered"].m) :
                      Len(ret[i].calls) = Len(Impl_Range(mp[i], ord, call.stop))
          /\ \E ord \in Perms(Range_Of(KeysOf(model["unordered"]))) :
                LET seen == [j \in 1..Len(ret["unordered"].calls) |->
                                <<ord[j], ModelGet(model["unordered"], ord[j])>>]
                IN  ret["unordered"].calls =
                        IF call.op = "Keys" THEN KeysOf(seen) ELSE ValuesOf(seen)
    /\ call.op = "Keys" =>
          ret["ordered"].calls =
              KeysOf(SubSeq(model["ordered"], 1, Len(ret["ordered"].calls)))
    /\ call.op = "Values" =>
          ret["ordered"].calls =
              ValuesOf(SubSeq(model["ordered"], 1, Len(ret["ordered"].calls)))

\* C13 witness: Values has handed the same value over twice, once for each
\* of two keys.
C13_Witness ==
    /\ call.op = "Values" /\ call.stop = 0
    /\ \A i \in Instances :
          /\ Len(model[i]) = 2
          /\ Len(ret[i].calls) = 2
          /\ ret[i].calls[1] = ret[i].calls[2]

\* The pairs of a map in the order a full Range on OrderedMap delivers them.
Order(s) == OM_Range(s, 0)

\* The sequence without the pairs of key.
Without(seq, key) == SelectSeq(seq, LAMBDA p : p[1] # key)

\* What C14 says of one step of map i.
C14_Step(i) ==
    call'.op = "Delete" =>
        LET k == call'.key
        IN  IF ~ModelHas(model[i], k)
            THEN /\ mp'[i] = mp[i]
                 /\ Impl_Len(mp'[i]) = Impl_Len(mp[i])
                 /\ \A k2 \in Keys : Impl_Load(mp'[i], k2) = Impl_Load(mp[i], k2)
            ELSE /\ ~Impl_Load(mp'[i], k).ok
                 /\ Impl_Len(mp'[i]) = Impl_Len(mp[i]) - 1
                 /\ \A k2 \in Keys \ {k} : Impl_Load(mp'[i], k2) = Impl_Load(mp[i], k2)

StoresIfAbsent == {"Store", "Swap", "LoadOrStore"}

\* C15: on OrderedMap a Store of a key that is not present puts the key at
\* the tail of the order and leaves the order of the others alone, also when
\* the key was there before and was deleted or cleared away; after Clear the
\* order is the order of the stores made since.
C15_StoreAppends ==
    [][(call'.op \in StoresIfAbsent /\ ~ModelHas(model["ordered"], call'.key)) =>
          /\ Order(mp'["ordered"]) =
                Append(Order(mp["ordered"]), <<call'.key, call'.value>>)
          /\ call.op = "Clear" =>
                Order(mp'["ordered"]) = <<(<<call'.key, call'.value>>)>>]_vars

\* C15 witness: a Store has put a key that was not present behind a key
\* with a higher number.
C15_Witness ==
    /\ call.op = "Store"
    /\ before["ordered"] = 1
    /\ Len(Order(mp["ordered"])) = 2
    /\ Order(mp["ordered"])[2] = <<call.key, call.value>>
    /\ Order(mp["ordered"])[1][1] > call.key

\* What C16 says of one step of map i.
C16_Step(i) ==
    LET k == call'.key
        held == ModelLoad(model[i], k)
    IN  /\ (call'.op = "Store" /\ call'.value = Zero) =>
              /\ Impl_Load(mp'[i], k) = [value |-> Zero, ok |-> TRUE]
              /\ Impl_Len(mp'[i]) = Cardinality({k2 \in Keys : Impl_Load(mp'[i], k2).ok})
              /\ Impl_Len(mp'[i]) = Impl_Len(mp[i]) + (IF held.ok THEN 0 ELSE 1)
        /\ held = [value |-> Zero, ok |-> TRUE] =>
              /\ call'.op = "Load" => (ret'[i].value = Zero /\ ret'[i].ok)
              /\ call'.op = "LoadOrStore" =>
                    /\ ret'[i].value = Zero /\ ret'[i].ok
                    /\ mp'[i] = mp[i]
              /\ (call'.op = "CompareAndSwap" /\ call'.old = Zero) =>
                    /\ ret'[i].ok
                    /\ Impl_Load(mp'[i], k) = [value |-> call'.value, ok |-> TRUE]
        /\ ~held.ok =>
              /\ call'.op = "Load" => ~ret'[i].ok
              /\ (call'.op \in {"CompareAndSwap", "CompareAndDelete"} /\ call'.old = Zero) =>
                    /\ ~ret'[i].ok
                    /\ mp'[i] = mp[i]

\* C16: a stored zero value is a value, not an absence: after Store(k, zero)
\* Load(k) returns (zero, true) and Len counts k, LoadOrStore(k, v) returns
\* (zero, true) and overwrites nothing, CompareAndSwap(k, zero, v) succeeds;
\* on a map without k Load(k) reports not found and CompareAndSwap(k, zero,
\* v) and CompareAndDelete(k, zero) return false and store nothing.
C16_ZeroValueIsPresent == [][\A i \in Instances : C16_Step(i)]_vars

\* C16 witness: LoadOrStore of a non-zero value on a key that holds the zero
\* value has returned (zero, true) and the key still holds the zero value.
C16_Witness ==
    /\ call.op = "LoadOrStore" /\ call.value # Zero
    /\ \A i \in Instances :
          /\ ret[i].value = Zero /\ ret[i].ok
          /\ Impl_Load(mp[i], call.key) = [value |-> Zero, ok |-> TRUE]

\* The calls that hand the pairs, keys or values of the map to a visitor.
Iterations == {"Range", "Keys", "Values"}

\* C17: UnorderedMap and OrderedMap differ in key order only: after the same
\* sequence of calls every call has returned the same on both, a full Range
\* has delivered the same set of pairs on both, and what any next Load or
\* Len returns is the same on both.
C17_SameObservations ==
    /\ call.op \notin Iterations => ret["unordered"] = ret["ordered"]
    /\ call.op \in Iterations =>
          /\ Len(ret["unordered"].calls) = Len(ret["ordered"].calls)
          /\ call.stop = 0 =>
                Range_Of(ret["unordered"].calls) = Range_Of(ret["ordered"].calls)
    /\ Impl_Len(mp["unordered"]) = Impl_Len(mp["ordered"])
    /\ \A k \in Keys : Impl_Load(mp["unordered"], k) = Impl_Load(mp["ordered"], k)
    /\ \A ord \in Orders :
          Range_Of(Impl_Range(mp["unordered"], ord, 0)) =
              Range_Of(Impl_Range(mp["ordered"], ord, 0))

\* C17 witness: Swap has overwritten a key of two and returned the same
\* previous value on both maps, OrderedMap holding the higher key first.
C17_Witness ==
    /\ call.op = "Swap"
    /\ ret["unordered"].ok /\ ret["unordered"] = ret["ordered"]
    /\ ret["ordered"].value # call.value
    /\ Impl_Len(mp["ordered"]) = 2
    /\ Order(mp["ordered"])[1][1] > Order(mp["ordered"])[2][1]

\* The calls that load the pairs of a source into the map.
BulkLoads == {"FromGoMaps", "FromAbstractMap"}

\* What a source that yielded the pairs src holds under key.
SourceLoad(src, key) == ModelLoad(src, key)

\* What C18 says of one step of map i.
C18_Step(i) ==
    call'.op \in BulkLoads =>
        \A k \in Keys :
            LET now == SourceLoad(call'.src, k)
                got == Impl_Load(mp'[i], k)
            IN  IF now.ok THEN got = now
                ELSE /\ got = Impl_Load(mp[i], k)
                     /\ (call.op = call'.op /\ SourceLoad(call.src, k).ok) =>
                           got = SourceLoad(call.src, k)

C20_EmptyMap ==
    \A i \in Instances :
        Len(model[i]) = 0 =>
            /\ Impl_Len(mp[i]) = 0
            /\ call.op = "Len" => ret[i].n = 0
            /\ call.op \in Iterations => ret[i].calls = <<>>
            /\ \A stop \in Stops, ord \in Perms(DOMAIN mp[i].m) :
                  /\ Len(Impl_Range(mp[i], ord, stop)) = 0
                  /\ Len(DAM_Keys(mp[i], ord, stop)) = 0
                  /\ Len(DAM_Values(mp[i], ord, stop)) = 0

\* C20 witness: a Delete has taken the last key out of both maps, which
\* Len, Range, Keys and Values find empty.
C20_Witness ==
    /\ call.op = "Delete"
    /\ \A i \in Instances :
          /\ before[i] = 1 /\ Len(model[i]) = 0
          /\ Impl_Len(mp[i]) = 0
          /\ Impl_Range(mp[i], <<>>, 0) = <<>>

\* Key and list element of an OrderedMap answer to each other: every key of
\* the index leads to an element of the list that holds an entry of that
\* key, every element of the list is the one the index has for its key, and
\* the list is as long as it says.
Corresponds(om) ==
    /\ \A k \in DOMAIN om.m :
          /\ om.m[k] \in Range_Of(ListElems(om))
          /\ om.ent[om.m[k]].key = k
    /\ \A e \in Range_Of(ListElems(om)) :
          /\ om.ent[e].key \in DOMAIN om.m
          /\ om.m[om.ent[e].key] = e
    /\ om.len = Len(ListElems(om))

\* C21: on OrderedMap a visitor of Range may delete the key it is called
\* with or a key it was called with before: index and list keep answering
\* to each other, and the Range goes on to call the visitor once for every
\* entry left, in insertion order, so that a Range whose visitor never
\* answers false has called it for every entry that was there.
C21_DeleteInVisitor ==
    (walk.who = "ordered" /\ walk.op = "Range" /\ walk.unlink = Nil) =>
        /\ Corresponds(mp["ordered"])
        /\ walk.seen = SubSeq(walk.start, 1, Len(walk.seen))
        /\ (walk.pc = "idle" /\ ~walk.stopped) => walk.seen = walk.start

\* What C22 says of one step of the OrderedMap: from a state inside the body
\* of Delete, where the key is out of the index and its element still in the
\* list, nothing happens but the Remove that ends the body: no visitor is
\* called, no method begins or goes on.
C22_Step ==
    (walk.who = "ordered" /\ walk.unlink # Nil) =>
        /\ ~Corresponds(mp["ordered"])
        /\ walk' = [walk EXCEPT !.unlink = Nil]
        /\ Corresponds(mp'["ordered"])

ClearDeleted == SubSeq(KeysOf(walk.seen), 1, Len(walk.seen) - Len(walk.keys))

\* The keys the map holds.
HeldKeys(s) == DOMAIN s.m

\* What C23 says of one step of a Clear: in the first loop the map is left
\* alone and the key visited is appended to the slice; the second loop is
\* entered when the first has come to its end; each turn of the second loop
\* calls Delete for the next key of the slice and no other.
C23_Step ==
    (walk.op = "Clear" /\ walk'.op = "Clear" /\ walk.unlink = Nil) =>
        /\ walk.pc = "loop" =>
              /\ HeldKeys(mp'[walk.who]) = HeldKeys(mp[walk.who])
              /\ walk'.pc = "delete" =>
                    (walk'.keys = KeysOf(walk.start) /\ walk'.seen = walk.start)
        /\ (walk.pc = "delete" /\ walk.keys # <<>>) =>
              /\ HeldKeys(mp'[walk.who]) = HeldKeys(mp[walk.who]) \ {Head(walk.keys)}
              /\ Head(walk.keys) \in HeldKeys(mp[walk.who])
              /\ walk'.keys = Tail(walk.keys)

\* C23: Clear works in two phases on both maps: one full Range pass collects
\* every key the map holds, the first Delete is called when that pass is
\* over, and Delete is then called exactly once for each key collected, so
\* that no key held when Clear was called is left.
C23_ClearTwoPhase ==
    /\ [](walk.op = "Clear" =>
            /\ walk.pc = "loop" =>
                  /\ HeldKeys(mp[walk.who]) = Range_Of(KeysOf(walk.start))
                  /\ walk.keys = KeysOf(walk.seen)
                  /\ walk.dels = {}
            /\ walk.pc \in {"delete", "idle"} =>
                  /\ KeysOf(walk.seen) = KeysOf(walk.start)
                  /\ Distinct(KeysOf(walk.seen))
                  /\ walk.keys = SubSeq(KeysOf(walk.seen), Len(ClearDeleted) + 1, Len(walk.seen))
                  /\ walk.dels = Range_Of(ClearDeleted)
                  /\ HeldKeys(mp[walk.who]) = Range_Of(walk.keys)
            /\ walk.pc = "idle" =>
                  /\ walk.keys = <<>>
                  /\ Impl_Len(mp[walk.who]) = 0
                  /\ walk.dels = Range_Of(KeysOf(walk.start)))
    /\ [][C23_Step]_vars

\* C23 witness: Clear has collected the two keys of a map in its first loop
\* and has deleted the first of them in its second.
C23_Witness ==
    /\ walk.op = "Clear" /\ walk.pc = "delete" /\ walk.unlink = Nil
    /\ Len(walk.start) = 2
    /\ walk.keys = <<walk.start[2][1]>>
    /\ HeldKeys(mp[walk.who]) = {walk.start[2][1]}

\* C24: the Len each map defines itself, the size of its hash index, agrees
\* in every reachable state with the Len DefaultAbstractMap derives, the
\* number of calls a full Range makes of its visitor; on OrderedMap that is
\* the length of the linked list.
C24_LenAgreesWithDerived ==
    /\ \A i \in Instances :
          /\ \A ord \in Orders : Impl_Len(mp[i]) = DAM_Len(mp[i], ord)
          /\ call.op = "Len" => \A ord \in Orders : ret[i].n = DAM_Len(mp[i], ord)
    /\ OM_Len(mp["ordered"]) = mp["ordered"].len
    /\ OM_Len(mp["ordered"]) = Len(ListElems(mp["ordered"]))

\* C24 witness: Len has returned 2 on both maps, and draining Range counts
\* 2 as well.
C24_Witness ==
    /\ call.op = "Len"
    /\ \A i \in Instances :
          /\ ret[i].n = 2
          /\ \A ord \in Orders : DAM_Len(mp[i], ord) = 2
    /\ mp["ordered"].len = 2

\* What C25 says of one step of the OrderedMap.
C25_Step ==
    LET k == call'.key
        held == ModelHas(model["ordered"], k)
        o1 == Order(mp["ordered"])
        o2 == Order(mp'["ordered"])
    IN  /\ (call'.op \in {"Swap", "LoadOrStore"} /\ held) => KeysOf(o2) = KeysOf(o1)
        /\ (call'.op = "CompareAndSwap" /\ ret'["ordered"].ok) =>
              /\ KeysOf(o2) = KeysOf(o1)
              /\ \E j \in DOMAIN o2 : o2[j] = <<k, call'.value>>
        /\ (call'.op \in {"Swap", "LoadOrStore"} /\ ~held) =>
              KeysOf(o2) = Append(KeysOf(o1), k)
        /\ (call'.op = "LoadAndDelete" /\ ret'["ordered"].ok) => o2 = Without(o1, k)
        /\ (call'.op = "CompareAndDelete" /\ ret'["ordered"].ok) => o2 = Without(o1, k)

ReadOnly == {"Load", "Len", "Range", "Keys", "Values"}

\* What C26 says of one step of map i.
C26_Step(i) ==
    LET held == ModelHas(model[i], call'.key)
        same == mp'[i] = mp[i]
    IN  /\ call'.op \in ReadOnly => same
        /\ (call'.op = "LoadOrStore" /\ held) => (same /\ ret'[i].ok)
        /\ (call'.op = "LoadAndDelete" /\ ~held) => (same /\ ~ret'[i].ok)
        /\ (call'.op \in {"CompareAndSwap", "CompareAndDelete"} /\ ~ret'[i].ok) => same

\* C26: the methods that only read and the calls that fail leave the map as
\* it was: after Load, Len, Range, Keys or Values with a visitor that does
\* not write, LoadOrStore on a present key, LoadAndDelete on an absent key
\* and a CompareAndSwap or CompareAndDelete that returns false, the keys,
\* the values and, on OrderedMap, the order, the index and the list are
\* those of before the call.
C26_ReadOnlyAndFailed == [][\A i \in Instances : C26_Step(i)]_vars

\* C26 witness: CompareAndSwap has returned false for a key that holds
\* another value than the one expected, on maps of two keys.
C26_Witness ==
    /\ call.op = "CompareAndSwap"
    /\ \A i \in Instances :
          /\ ~ret[i].ok
          /\ before[i] = 2
          /\ Impl_Load(mp[i], call.key).ok
          /\ Impl_Load(mp[i], call.key).value # call.old
          /\ Impl_Load(mp[i], call.key).value # call.value

\* The map after Store, Delete and Clear have returned.
AfterStore(s, key, value) == Collect(Impl_Store(s, key, value))
AfterDelete(s, key) == Collect(Impl_Delete(s, key))
AfterClear(s, ord) == Collect(DAM_Clear(s, ord))

\* The laws of C27 for the map s.
C27_Laws(s) ==
    /\ \A k \in Keys, v \in Values :
          AfterStore(AfterStore(s, k, v), k, v) = AfterStore(s, k, v)
    /\ \A k \in Keys : AfterDelete(AfterDelete(s, k), k) = AfterDelete(s, k)
    /\ \A ord \in Perms(DOMAIN s.m) :
          AfterClear(AfterClear(s, ord), <<>>) = AfterClear(s, ord)
    /\ \A k \in Keys \ DOMAIN s.m, v \in Values :
          AfterDelete(AfterStore(s, k, v), k) = s

\* C27: on both maps, the state being compared with the order of OrderedMap,
\* Store(k, v) twice is Store(k, v) once, Delete(k) twice is Delete(k) once,
\* Clear twice is Clear once, and on a map that does not hold k Store(k, v)
\* followed by Delete(k) gives back the state it started from.
C27_AlgebraicLaws == \A i \in Instances : C27_Laws(mp[i])

\* C27 witness: a map of one key, on which Store of the other key followed
\* by its Delete leads back to the same state, also on OrderedMap with its
\* list.
C27_Witness ==
    /\ \A i \in Instances : Impl_Len(mp[i]) = 1
    /\ \E k \in Keys \ DOMAIN mp["ordered"].m, v \in Values :
          /\ Order(AfterStore(mp["ordered"], k, v)) = Append(Order(mp["ordered"]), <<k, v>>)
          /\ AfterDelete(AfterStore(mp["ordered"], k, v), k) = mp["ordered"]
          /\ AfterDelete(AfterStore(mp["unordered"], k, v), k) = mp["unordered"]

\* The keys of the pairs that are not keys of was, in the order of pairs.
NewKeys(pairs, was) ==
    SelectSeq(KeysOf(pairs), LAMBDA k : \A j \in DOMAIN was : was[j][1] # k)

\* A call of FromAbstractMap is under way or has just returned.
Copying == walk.op = "FromAbstractMap"

\* What C28 says of one statement of FromAbstractMap.
C28_Step ==
    walk'.op = "FromAbstractMap" =>
        /\ walk'.src # "dst" => mp'["src"] = mp["src"]
        /\ walk'.src = "dst" => mp'["dst"] = mp["dst"]

\* C28: FromAbstractMap(dst, am) leaves am as it is at every statement when am
\* is another map than dst, and leaves dst as it is at every statement when am
\* is dst itself; it visits the pairs of am as one Range over am does (for an
\* OrderedMap in insertion order) and not more of them, and it returns; when
\* dst is an OrderedMap its order is, throughout and at the return, the order
\* it had when the call began followed by the keys that were new to it, in the
\* order in which the call came upon them.
C28_FromAbstractMapFrame ==
    /\ [][C28_Step]_vars
    /\ [](Copying =>
            /\ walk.seen = SubSeq(walk.start, 1, Len(walk.seen))
            /\ Len(walk.seen) <= Len(walk.start)
            /\ walk.pc = "idle" => walk.seen = walk.start
            /\ mp[walk.src].kind = "ordered" => walk.start = Order(mp[walk.src])
            /\ mp["dst"].kind = "ordered" =>
                  /\ Corresponds(mp["dst"])
                  /\ KeysOf(Order(mp["dst"])) =
                        KeysOf(walk.was) \o NewKeys(walk.seen, walk.was))
    /\ (Copying /\ walk.pc = "loop") ~> (Copying /\ walk.pc = "idle")

\* FromAbstractMap has returned after copying, from another OrderedMap into an
\* OrderedMap that held one key, first a key new to it and then the key it held
\* with another value.
C28_Witness ==
    /\ Copying
    /\ walk.pc = "idle"
    /\ walk.src = "src"
    /\ mp["dst"].kind = "ordered"
    /\ mp["src"].kind = "ordered"
    /\ Len(walk.was) = 1
    /\ Len(walk.start) = 2
    /\ walk.start[2][1] = walk.was[1][1]
    /\ walk.start[2][2] # walk.was[1][2]

\* C29: a call under way always returns; Range, Keys, Values and Len whose
\* visitor has not changed the map have called it at most Len() times, Len()
\* being the length of the map at the call and throughout; Clear has visited at
\* most Len() entries in its first loop and has deleted, with the keys still
\* to delete, at most Len() keys in its second.
C29_Terminates ==
    /\ []((walk.op \in Loops /\ walk.op # "Clear" /\ walk.dels = {}) =>
            /\ Len(walk.start) = Impl_Len(mp[walk.who])
            /\ Len(walk.seen) <= Impl_Len(mp[walk.who]))
    /\ [](walk.op = "Clear" =>
            /\ Len(walk.seen) <= Len(walk.start)
            /\ walk.pc = "loop" => Len(walk.start) = Impl_Len(mp[walk.who])
            /\ Cardinality(walk.dels) + Len(walk.keys) <= Len(walk.start))
    /\ ~Quiet ~> Quiet

\* Len has returned after its loop body ran once for each of two entries.
C29_Witness ==
    /\ walk.op = "Len"
    /\ walk.pc = "idle"
    /\ Len(walk.start) = 2
    /\ Len(walk.seen) = 2

====
